---- MODULE Spec2Model ----
(***************************************************************************)
(* A model of glium's vertex_buffer.rs: typed and untyped vertex buffers,  *)
(* their constructors, the read/write/map operations, the erase into       *)
(* VertexBufferAny, the resolution into a VerticesSource and the Drop of   *)
(* VertexBufferAny, which purges the context's vertex-array-object cache.  *)
(*                                                                         *)
(* The Buffer type (buffer.rs), the context and the fence primitive are    *)
(* not part of vertex_buffer.rs; the operators named Buffer_* and the      *)
(* Draw* actions model them from the specification's section 6.            *)
(***************************************************************************)
EXTENDS Integers, Sequences, FiniteSets, TLC

\* ------------------------------------------------------------------ bounds
MaxLen == 2        \* longest data vector handed to a constructor
MaxIds == 2        \* device buffer names GenBuffers can hand out: 1..MaxIds
MaxChans == 2      \* fence channels created in one behaviour

\* --------------------------------------------------------- opaque domains
Handles == {"a", "b"}              \* the owners (Rust values) of buffers
Elems == {"x", "y"}                \* the values a vertex can take
Progs == {"p", "q"}                \* the third component of a cache key
Vaos == {"vao1", "vao2"}           \* cached vertex array objects
Ids == 1..MaxIds
Keys == Ids \X {"ib"} \X Progs     \* (vertex buffer id, index buffer, program)
NoVao == "absent"
None == "None"

SeqsUpTo(S, n) == UNION {[1..k -> S] : k \in 0..n}

\* --------------------------------------------------------- attribute types
\* enum AttributeType: the scalar of each variant and its arity
AttributeType ==
    {"I8", "I8I8", "I8I8I8", "I8I8I8I8", "U8", "U8U8", "U8U8U8", "U8U8U8U8",
     "I16", "I16I16", "I16I16I16", "I16I16I16I16",
     "U16", "U16U16", "U16U16U16", "U16U16U16U16",
     "I32", "I32I32", "I32I32I32", "I32I32I32I32",
     "U32", "U32U32", "U32U32U32", "U32U32U32U32",
     "F32", "F32F32", "F32F32F32", "F32F32F32F32"}

ScalarBytes(t) ==
    IF t \in {"I8", "I8I8", "I8I8I8", "I8I8I8I8", "U8", "U8U8", "U8U8U8", "U8U8U8U8"}
    THEN 1
    ELSE IF t \in {"I16", "I16I16", "I16I16I16", "I16I16I16I16",
                   "U16", "U16U16", "U16U16U16", "U16U16U16U16"}
    THEN 2
    ELSE 4

Arity(t) ==
    IF t \in {"I8", "U8", "I16", "U16", "I32", "U32", "F32"} THEN 1
    ELSE IF t \in {"I8I8", "U8U8", "I16I16", "U16U16", "I32I32", "U32U32", "F32F32"} THEN 2
    ELSE IF t \in {"I8I8I8", "U8U8U8", "I16I16I16", "U16U16U16", "I32I32I32",
                   "U32U32U32", "F32F32F32"} THEN 3
    ELSE 4

\* the number of bytes a value of attribute type t occupies
AttributeBytes(t) == ScalarBytes(t) * Arity(t)

\* ------------------------------------------------------------ vertex types
\* The record types T a VertexBuffer<T> is built for: the fields in
\* declaration order.  Vertex is the documentation's example struct.
VertexTypes ==
    { [name |-> "Vertex",
       fields |-> << <<"position", "F32F32F32">>, <<"texcoords", "F32F32">> >>],
      [name |-> "Packed",
       fields |-> << <<"flag", "U8">>, <<"weight", "F32">>, <<"bone", "I16I16I16">> >>],
      [name |-> "Unit", fields |-> << >>] }

AlignUp(n, a) == ((n + a - 1) \div a) * a

Max2(a, b) == IF a >= b THEN a ELSE b

RECURSIVE OffsetOf(_, _)
\* the byte offset of field i of the record type with these fields
OffsetOf(fields, i) ==
    IF i = 1 THEN 0
    ELSE AlignUp(OffsetOf(fields, i - 1) + AttributeBytes(fields[i - 1][2]),
                 ScalarBytes(fields[i][2]))

RECURSIVE AlignOf(_, _)
AlignOf(fields, n) ==
    IF n = 0 THEN 1 ELSE Max2(ScalarBytes(fields[n][2]), AlignOf(fields, n - 1))

\* mem::size_of::<T>()
SizeOf(T) ==
    LET n == Len(T.fields) IN
    IF n = 0 THEN 0
    ELSE AlignUp(OffsetOf(T.fields, n) + AttributeBytes(T.fields[n][2]),
                 AlignOf(T.fields, n))

\* Vertex::build_bindings(None::<T>): one (name, offset, type) per field
build_bindings(T) ==
    [i \in 1..Len(T.fields) |->
        <<T.fields[i][1], OffsetOf(T.fields, i), T.fields[i][2]>>]

\* ---------------------------------------------------------------- state
VARIABLES
    ctx,        \* the device: version, extension flag, readback support
    bufs,       \* Handles -> the vertex buffer each owner holds
    vaos,       \* context.vertex_array_objects: Keys -> Vaos or NoVao
    lock,       \* the holder of the vertex_array_objects mutex, or None
    to_delete,  \* the keys collected by the drop that holds the lock
    vaos0,      \* the cache as it was when that drop took the lock
    released,   \* the ids of device buffers released and not handed out again
    nextChan,   \* the number of fence channels created so far
    result      \* the last operation and what it returned

vars == <<ctx, bufs, vaos, lock, to_delete, vaos0, released, nextChan, result>>

\* struct Buffer (buffer.rs), as the specification's DeviceBuffer.  fences
\* are the channels attached to the buffer and not waited for since;
\* published, in the order of publication, those through which the draw path
\* has sent a fence; signalled those whose fence the device has reached.
NoBuffer == [id |-> 0, persistent |-> FALSE, elements_size |-> 0,
             data |-> << >>, fences |-> {}, published |-> << >>,
             signalled |-> {}]

\* An owner that holds no buffer.  Beside the fields of VertexBufferAny an
\* owner records its place in the buffer's life (st), the live Mappings of the
\* buffer, the constructor that built it, while the elements are as the
\* last write left them, that write's offset and data (written), and the
\* cache keys the draw path entered for this buffer (entered).
NoBuf == [st |-> "none", buffer |-> NoBuffer, bindings |-> << >>,
          elements_size |-> 0, mapping |-> 0, ctor |-> "none", written |-> << >>,
          entered |-> {}]

EmptyCache == [k \in Keys |-> NoVao]

Live(h) == bufs[h].st \in {"typed", "any"}

\* the ids of the device buffers that exist
LiveIds == {bufs[h].buffer.id : h \in {g \in Handles : bufs[g].st # "none"}}

\* ------------------------------------------------------------- Buffer (spec)
\* Buffer::new: allocate a device buffer, upload data
Buffer_new(id, data, size, persistent) ==
    [id |-> id, persistent |-> persistent, elements_size |-> size,
     data |-> data, fences |-> {}, published |-> << >>, signalled |-> {}]

Buffer_get_elements_size(b) == b.elements_size
Buffer_get_elements_count(b) == Len(b.data)
Buffer_get_id(b) == b.id
Buffer_is_persistent(b) == b.persistent


\* the outcomes of an operation: a tag and, where it has one, a value
Some(v) == [tag |-> "Some", v |-> v]
Fail(t) == [tag |-> t, v |-> << >>]

\* Buffer::upload: replace Len(data) elements from element index offset; the
\* buffer is untouched when the range does not fit
Buffer_upload(b, offset, data) ==
    IF offset + Len(data) > Len(b.data)
    THEN [out |-> Fail("OutOfBounds"), buffer |-> b]
    ELSE [out |-> Some(data),
          buffer |-> [b EXCEPT !.data =
                        [i \in 1..Len(b.data) |->
                            IF i > offset /\ i <= offset + Len(data)
                            THEN data[i - offset] ELSE b.data[i]]]]

\* Buffer::read_slice_if_supported: the outcomes a readback of size elements
\* from element index offset can have.  The specification does not order the
\* range check and the capability check, so a range that does not fit on a
\* device without readback may end either way.
Buffer_read_slice_if_supported(c, b, offset, size) ==
    IF offset + size <= Len(b.data)
    THEN IF c.readback
         THEN {Some(SubSeq(b.data, offset + 1, offset + size))}
         ELSE {Fail(None)}
    ELSE IF c.readback
         THEN {Fail("OutOfBounds")}
         ELSE {Fail("OutOfBounds"), Fail(None)}

\* Buffer::read_if_supported: the whole buffer
Buffer_read_if_supported(c, b) ==
    Buffer_read_slice_if_supported(c, b, 0, Buffer_get_elements_count(b))

\* Buffer::add_fence: a new channel whose receiver the buffer keeps
Buffer_add_fence(b, chan) == [b EXCEPT !.fences = @ \cup {chan}]

\* the channels of b through which a fence has been published
Published(b) == {b.published[i] : i \in 1..Len(b.published)}

\* the wait of Buffer::map is over: the buffer is not persistently mapped (the
\* device's own completion is waited for), or every channel attached to it
\* has had its fence published and the most recently published fence is
\* signalled
Buffer_wait_over(b) ==
    \/ ~b.persistent
    \/ /\ Published(b) = b.fences
       /\ \/ b.published = << >>
          \/ b.published[Len(b.published)] \in b.signalled

\* Buffer::map: whether the call can return, the buffer once it has (the
\* fences waited for are consumed) and the elements the mapping exposes
Buffer_map(b, offset, size) ==
    [ready |-> Buffer_wait_over(b),
     buffer |-> [b EXCEPT !.fences = {}, !.published = << >>, !.signalled = {}],
     view |-> SubSeq(b.data, offset + 1, offset + size)]

\* ------------------------------------------------------------ constructors
\* GlVersion's derived ordering: major first, then minor
VersionLt(v, w) == v[1] < w[1] \/ (v[1] = w[1] /\ v[2] < w[2])

Owner(ctor, any) ==
    [st |-> "typed", buffer |-> any.buffer, bindings |-> any.bindings,
     elements_size |-> any.elements_size, mapping |-> 0, ctor |-> ctor,
     written |-> << >>, entered |-> {}]

\* a mutant of VertexBuffer_new: the stride is taken from the data's length
VertexBuffer_new_len(id, T, data) ==
    LET buffer == Buffer_new(id, data, SizeOf(T), FALSE) IN
    [buffer |-> buffer, bindings |-> build_bindings(T),
     elements_size |-> Buffer_get_elements_count(buffer)]

\* VertexBuffer::new
VertexBuffer_new(id, T, data) ==
    LET buffer == Buffer_new(id, data, SizeOf(T), FALSE) IN
    [buffer |-> buffer, bindings |-> build_bindings(T),
     elements_size |-> Buffer_get_elements_size(buffer)]

\* VertexBuffer::new_dynamic
VertexBuffer_new_dynamic(id, T, data) ==
    LET buffer == Buffer_new(id, data, SizeOf(T), FALSE) IN
    [buffer |-> buffer, bindings |-> build_bindings(T),
     elements_size |-> Buffer_get_elements_size(buffer)]

\* a mutant of Unsupported: the two conditions are joined by "or"
UnsupportedOr(c) ==
    VersionLt(c.version, <<4, 4>>) \/ ~c.gl_arb_buffer_storage

\* the condition under which new_persistent_if_supported returns None
Unsupported(c) ==
    VersionLt(c.version, <<4, 4>>) /\ ~c.gl_arb_buffer_storage

\* VertexBuffer::new_persistent_if_supported
VertexBuffer_new_persistent_if_supported(c, id, T, data) ==
    IF Unsupported(c)
    THEN Fail(None)
    ELSE LET buffer == Buffer_new(id, data, SizeOf(T), TRUE) IN
         Some([buffer |-> buffer, bindings |-> build_bindings(T),
               elements_size |-> Buffer_get_elements_size(buffer)])

\* Option::unwrap
unwrap(r) == IF r.tag = "Some" THEN r ELSE Fail("panic")

\* VertexBuffer::new_persistent
VertexBuffer_new_persistent(c, id, T, data) ==
    unwrap(VertexBuffer_new_persistent_if_supported(c, id, T, data))

\* VertexBuffer::new_raw
VertexBuffer_new_raw(id, data, bindings, elements_size) ==
    [buffer |-> Buffer_new(id, data, elements_size, FALSE),
     bindings |-> bindings, elements_size |-> elements_size]

\* ----------------------------------------------------------------- getters
is_persistent(vb) == Buffer_is_persistent(vb.buffer)
get_elements_size(vb) == vb.elements_size
get_bindings(vb) == vb.bindings
get_id(vb) == Buffer_get_id(vb.buffer)

\* what an operation leaves in result
Res(op, h, out, off) ==
    [op |-> op, h |-> h, tag |-> out.tag, v |-> out.v, off |-> off, size |-> 0]

\* what an operation that returns nothing of interest leaves in result
Quiet == Res("none", None, Some(<< >>), 0)

FreeIds == Ids \ LiveIds

Others == <<ctx, vaos, lock, to_delete, vaos0, nextChan>>

\* the owner h is bound to the buffer a constructor built with device name id
Built(h, ctor, id, any) ==
    /\ bufs' = [bufs EXCEPT ![h] = Owner(ctor, any)]
    /\ released' = released \ {id}
    /\ result' = Res(ctor, h, Some(<< >>), 0)
    /\ UNCHANGED Others

New(h, T, data) ==
    /\ bufs[h].st = "none"
    /\ \E id \in FreeIds : Built(h, "new", id, VertexBuffer_new(id, T, data))

NewDynamic(h, T, data) ==
    /\ bufs[h].st = "none"
    /\ \E id \in FreeIds :
          Built(h, "new_dynamic", id, VertexBuffer_new_dynamic(id, T, data))

\* the owner h receives what a persistent constructor returned
BuiltIf(h, ctor, id, r) ==
    IF r.tag = "Some"
    THEN Built(h, ctor, id, r.v)
    ELSE /\ result' = Res(ctor, h, r, 0)
         /\ UNCHANGED <<bufs, released>>
         /\ UNCHANGED Others

NewPersistentIfSupported(h, T, data) ==
    /\ bufs[h].st = "none"
    /\ \E id \in FreeIds :
          BuiltIf(h, "new_persistent_if_supported", id,
                  VertexBuffer_new_persistent_if_supported(ctx, id, T, data))

NewPersistent(h, T, data) ==
    /\ bufs[h].st = "none"
    /\ \E id \in FreeIds :
          BuiltIf(h, "new_persistent", id,
                  VertexBuffer_new_persistent(ctx, id, T, data))

NewRaw(h, data, bindings, elements_size) ==
    /\ bufs[h].st = "none"
    /\ \E id \in FreeIds :
          Built(h, "new_raw", id,
                VertexBuffer_new_raw(id, data, bindings, elements_size))


\* ------------------------------------------------------- typed operations
\* A Mapping<'a, T> holds the buffer's only &'a mut borrow: while one lives
\* the borrow checker accepts no other use of the owner.
Unborrowed(h) == bufs[h].mapping = 0

\* a mutant of CanMap: the exclusive borrow is not required
CanMapAlways(h) == bufs[h].st = "typed"

\* map takes &'a mut self
CanMap(h) == bufs[h].st = "typed" /\ Unborrowed(h)

\* a mutant of write: the offset is passed on as a count of elements past it
write_shifted(vb, offset, data) == Buffer_upload(vb.buffer, offset + 1, data)

\* VertexBuffer::write
write(vb, offset, data) == Buffer_upload(vb.buffer, offset, data)

\* a mutant of read_slice_if_supported: the size is passed on clamped
read_slice_clamped(c, vb, offset, size) ==
    Buffer_read_slice_if_supported(c, vb.buffer, offset,
        IF offset + size > Len(vb.buffer.data) /\ offset <= Len(vb.buffer.data)
        THEN Len(vb.buffer.data) - offset ELSE size)

\* VertexBuffer::read_slice_if_supported
read_slice_if_supported(c, vb, offset, size) ==
    Buffer_read_slice_if_supported(c, vb.buffer, offset, size)

\* a mutant of read_if_supported: only the first element is read back
read_first(c, vb) ==
    Buffer_read_slice_if_supported(c, vb.buffer, 0,
        IF Len(vb.buffer.data) > 0 THEN 1 ELSE 0)

\* VertexBuffer::read_if_supported
read_if_supported(c, vb) == Buffer_read_if_supported(c, vb.buffer)

Rest == <<ctx, vaos, lock, to_delete, vaos0, released, nextChan>>

Write(h, offset, data) ==
    /\ bufs[h].st = "typed" /\ Unborrowed(h)
    /\ LET w == write(bufs[h], offset, data) IN
          /\ bufs' = [bufs EXCEPT ![h].buffer = w.buffer,
                                  ![h].written = IF w.out.tag = "Some"
                                                 THEN <<offset, data>> ELSE @]
          /\ result' = Res("write", h, [tag |-> w.out.tag, v |-> data], offset)
    /\ UNCHANGED Rest

\* read_if_supported, and read where the gl_read_buffer feature is compiled in
Read(h, op) ==
    /\ bufs[h].st = "typed" /\ Unborrowed(h)
    /\ op \in {"read", "read_if_supported"}
    /\ op = "read" => ctx.readback
    /\ \E r \in read_if_supported(ctx, bufs[h]) : result' = Res(op, h, r, 0)
    /\ UNCHANGED <<bufs>>
    /\ UNCHANGED Rest

\* read_slice_if_supported, and read_slice under the gl_read_buffer feature
ReadSlice(h, op, offset, size) ==
    /\ bufs[h].st = "typed" /\ Unborrowed(h)
    /\ op \in {"read_slice", "read_slice_if_supported"}
    /\ op = "read_slice" => ctx.readback
    /\ \E r \in read_slice_if_supported(ctx, bufs[h], offset, size) :
          result' = [Res(op, h, r, offset) EXCEPT !.size = size]
    /\ UNCHANGED <<bufs>>
    /\ UNCHANGED Rest

\* a mutant of map: the mapping is built on the buffer as it is, without the
\* call of Buffer::map and so without its wait
map_unsynchronized(vb) ==
    [ready |-> TRUE, buffer |-> vb.buffer, view |-> vb.buffer.data]

\* VertexBuffer::map: Buffer::map of the whole buffer
map(vb) == Buffer_map(vb.buffer, 0, Buffer_get_elements_count(vb.buffer))

\* VertexBuffer::map, at its return
Map(h) ==
    /\ CanMap(h)
    /\ map(bufs[h]).ready
    /\ bufs' = [bufs EXCEPT ![h].mapping = @ + 1, ![h].buffer = map(bufs[h]).buffer]
    /\ result' = Res("map", h, Some(<< >>), 0)
    /\ UNCHANGED Rest

\* Deref for Mapping: the elements are seen through the mapping
MapDeref(h) ==
    /\ bufs[h].mapping > 0
    /\ result' = Res("deref", h, Some(bufs[h].buffer.data), 0)
    /\ UNCHANGED <<bufs>>
    /\ UNCHANGED Rest

\* DerefMut for Mapping: element i is overwritten through the mapping
MapDerefMut(h, i, e) ==
    /\ bufs[h].mapping > 0
    /\ i \in 1..Len(bufs[h].buffer.data)
    /\ bufs' = [bufs EXCEPT ![h].buffer.data[i] = e, ![h].written = << >>]
    /\ result' = Res("deref_mut", h, Some(<<e>>), i - 1)
    /\ UNCHANGED Rest

\* the Mapping goes out of scope
Unmap(h) ==
    /\ bufs[h].mapping > 0
    /\ bufs' = [bufs EXCEPT ![h].mapping = @ - 1]
    /\ result' = Quiet
    /\ UNCHANGED Rest


\* ------------------------------------------------------ erase and resolve
\* a mutant of into_vertex_buffer_any: the typed wrapper is dropped, which
\* purges the cache, and the untyped buffer is rebuilt around the Buffer
erase_by_drop(vb, cache) ==
    [any |-> [buffer |-> vb.buffer, bindings |-> vb.bindings,
              elements_size |-> vb.elements_size],
     cache |-> [k \in Keys |-> IF k[1] = get_id(vb) THEN NoVao ELSE cache[k]]]

\* VertexBuffer::into_vertex_buffer_any: the embedded VertexBufferAny is moved
\* out; the cache is not touched
into_vertex_buffer_any(vb, cache) ==
    [any |-> [buffer |-> vb.buffer, bindings |-> vb.bindings,
              elements_size |-> vb.elements_size],
     cache |-> cache]

Erase(h) ==
    /\ bufs[h].st = "typed" /\ Unborrowed(h)
    /\ LET e == into_vertex_buffer_any(bufs[h], vaos) IN
          /\ bufs' = [bufs EXCEPT ![h] =
                        [@ EXCEPT !.st = "any", !.buffer = e.any.buffer,
                                  !.bindings = e.any.bindings,
                                  !.elements_size = e.any.elements_size]]
          /\ vaos' = e.cache
    /\ result' = Quiet
    /\ UNCHANGED <<ctx, lock, to_delete, vaos0, released, nextChan>>

\* VertexBufferAny::into_vertex_buffer
IntoVertexBuffer(h) ==
    /\ bufs[h].st = "any"
    /\ bufs' = [bufs EXCEPT ![h].st = "typed"]
    /\ result' = Quiet
    /\ UNCHANGED Rest

\* a mutant of into_vertices_source: the test of is_persistent is inverted
into_vertices_source_inverted(any, chan) ==
    IF ~Buffer_is_persistent(any.buffer)
    THEN [buffer |-> Buffer_add_fence(any.buffer, chan), fence |-> <<chan>>]
    ELSE [buffer |-> any.buffer, fence |-> << >>]

\* IntoVerticesSource for &VertexBufferAny (and, through it, &VertexBuffer<T>):
\* the buffer after the call and the sender the source carries, if any
into_vertices_source(any, chan) ==
    IF Buffer_is_persistent(any.buffer)
    THEN [buffer |-> Buffer_add_fence(any.buffer, chan), fence |-> <<chan>>]
    ELSE [buffer |-> any.buffer, fence |-> << >>]

IntoVerticesSource(h) ==
    /\ Live(h) /\ Unborrowed(h)
    /\ nextChan < MaxChans
    /\ LET s == into_vertices_source(bufs[h], nextChan + 1) IN
          /\ bufs' = [bufs EXCEPT ![h].buffer = s.buffer]
          /\ nextChan' = IF s.fence = << >> THEN nextChan ELSE nextChan + 1
          /\ result' = Res("into_vertices_source", h, Some(s.fence), 0)
    /\ UNCHANGED <<ctx, vaos, lock, to_delete, vaos0, released>>

\* ------------------------------------------------------------------- drop
\* a mutant of Matching: only the first matching key is collected
MatchingFirst(cache, id) ==
    LET m == {k \in Keys : cache[k] # NoVao /\ k[1] = id} IN
    IF m = {} THEN {} ELSE {CHOOSE k \in m : TRUE}

\* vaos.keys().filter(|&&(v, _, _)| v == self.buffer.get_id())
Matching(cache, id) == {k \in Keys : cache[k] # NoVao /\ k[1] = id}

\* a mutant of DropOrder: the Buffer field is released first
DropOrderReleaseFirst(phase) ==
    IF phase \in {"typed", "any"} THEN "release" ELSE "lock"

\* Drop::drop runs before the fields of the struct are dropped: what a drop
\* in this phase does next
DropOrder(phase) ==
    IF phase \in {"typed", "any"} THEN "lock"
    ELSE IF phase = "unlocked" THEN "release" ELSE "none"

\* vertex_array_objects.lock().unwrap()
DropLock(h) ==
    /\ Live(h) /\ Unborrowed(h)
    /\ DropOrder(bufs[h].st) = "lock"
    /\ lock = None
    /\ lock' = h
    /\ vaos0' = vaos
    /\ bufs' = [bufs EXCEPT ![h].st = "locked"]
    /\ result' = Quiet
    /\ UNCHANGED <<ctx, vaos, to_delete, released, nextChan>>

\* a mutant of DropCollect: the guard is let go once the keys are collected
DropCollectUnguarded(h) ==
    /\ bufs[h].st = "locked" /\ lock = h
    /\ to_delete' = Matching(vaos, get_id(bufs[h]))
    /\ lock' = None
    /\ bufs' = [bufs EXCEPT ![h].st = "removing"]
    /\ UNCHANGED <<ctx, vaos, vaos0, released, nextChan, result>>

\* let to_delete = ... collect::<Vec<_>>()
DropCollect(h) ==
    /\ bufs[h].st = "locked" /\ lock = h
    /\ to_delete' = Matching(vaos, get_id(bufs[h]))
    /\ bufs' = [bufs EXCEPT ![h].st = "removing"]
    /\ UNCHANGED <<ctx, vaos, lock, vaos0, released, nextChan, result>>

\* for k in to_delete.into_iter() { vaos.remove(&k); }
DropRemove(h) ==
    /\ bufs[h].st = "removing" /\ lock = h
    /\ \E k \in to_delete :
          /\ vaos' = [vaos EXCEPT ![k] = NoVao]
          /\ to_delete' = to_delete \ {k}
    /\ UNCHANGED <<ctx, bufs, lock, vaos0, released, nextChan, result>>

\* the end of drop: the loop is over and the guard goes out of scope
DropUnlock(h) ==
    /\ bufs[h].st = "removing" /\ lock = h
    /\ to_delete = {}
    /\ lock' = None
    /\ vaos0' = EmptyCache
    /\ bufs' = [bufs EXCEPT ![h].st = "unlocked"]
    /\ UNCHANGED <<ctx, vaos, to_delete, released, nextChan, result>>

\* the field buffer: Buffer is dropped, which releases the device buffer
DropBuffer(h) ==
    /\ bufs[h].st # "none" /\ Unborrowed(h)
    /\ DropOrder(bufs[h].st) = "release"
    /\ released' = released \cup {get_id(bufs[h])}
    /\ bufs' = [bufs EXCEPT ![h] = NoBuf]
    /\ result' = Res("released", h, Some(<<get_id(bufs[h])>>), 0)
    /\ UNCHANGED <<ctx, vaos, lock, to_delete, vaos0, nextChan>>

\* -------------------------------------------------------------- draw path
\* The draw path registers a vertex array object for a buffer it holds a
\* reference to, under the cache's lock.
DrawInsert(h, p, vao) ==
    /\ Live(h) /\ Unborrowed(h)
    /\ lock = None
    /\ vaos' = [vaos EXCEPT ![<<get_id(bufs[h]), "ib", p>>] = vao]
    /\ bufs' = [bufs EXCEPT ![h].entered = @ \cup {<<get_id(bufs[h]), "ib", p>>}]
    /\ result' = Quiet
    /\ UNCHANGED <<ctx, lock, to_delete, vaos0, released, nextChan>>

\* The draw path, done with a source of the buffer of h, publishes a fence
\* through the channel c that source carried.
DrawPublish(h, c) ==
    /\ bufs[h].st # "none"
    /\ c \in bufs[h].buffer.fences \ Published(bufs[h].buffer)
    /\ bufs' = [bufs EXCEPT ![h].buffer.published = Append(@, c)]
    /\ result' = Quiet
    /\ UNCHANGED Rest

\* The device reaches a fence: fences are reached in the order in which they
\* were published.
DeviceSignal(h) ==
    /\ bufs[h].st # "none"
    /\ \E i \in 1..Len(bufs[h].buffer.published) :
          /\ bufs[h].buffer.published[i] \notin bufs[h].buffer.signalled
          /\ \A j \in 1..(i - 1) :
                bufs[h].buffer.published[j] \in bufs[h].buffer.signalled
          /\ bufs' = [bufs EXCEPT ![h].buffer.signalled =
                                    @ \cup {bufs[h].buffer.published[i]}]
    /\ result' = Quiet
    /\ UNCHANGED Rest

\* The draw path looks a key up, under the cache's lock: the key and what the
\* cache holds for it.
DrawLookup(k) ==
    /\ lock = None
    /\ result' = Res("lookup", None, Some(<<k, vaos[k]>>), 0)
    /\ UNCHANGED <<bufs>>
    /\ UNCHANGED Rest


\* --------------------------------------------------------- specifications
Versions == {<<3, 3>>, <<3, 5>>, <<4, 3>>, <<4, 4>>, <<4, 5>>, <<5, 0>>}

Devices == [version : Versions, gl_arb_buffer_storage : BOOLEAN, readback : BOOLEAN]

TheVertex == CHOOSE T \in VertexTypes : T.name = "Vertex"

Datas == SeqsUpTo(Elems, MaxLen)

\* the vectors handed to write: one of each length, up to one element more
\* than any buffer holds
WriteDatas ==
    {[i \in 1..k |-> IF i % 2 = 1 THEN "y" ELSE "x"] : k \in 0..(MaxLen + 1)}

\* the state after the context is built on device c: no buffer, an empty cache
InitOn(c) ==
    /\ ctx = c
    /\ bufs = [h \in Handles |-> NoBuf]
    /\ vaos = EmptyCache
    /\ lock = None
    /\ to_delete = {}
    /\ vaos0 = EmptyCache
    /\ released = {}
    /\ nextChan = 0
    /\ result = Quiet

\* the steps of the drop of the buffer h owns
Drop(h) ==
    \/ DropLock(h)
    \/ DropCollect(h)
    \/ DropRemove(h)
    \/ DropUnlock(h)
    \/ DropBuffer(h)

\* The buffers and the cache: creation, erase, the draw path's cache entries
\* and the drop, on a device with persistent mapping.
Init ==
    \E c \in Devices :
       c.version = <<4, 4>> /\ ~c.gl_arb_buffer_storage /\ c.readback /\ InitOn(c)

Next ==
    \E h \in Handles :
       \/ New(h, TheVertex, <<"x">>)
       \/ NewPersistentIfSupported(h, TheVertex, <<"x">>)
       \/ Erase(h)
       \/ IntoVertexBuffer(h)
       \/ \E p \in Progs, vao \in Vaos : DrawInsert(h, p, vao)
       \/ Drop(h)

Spec == Init /\ [][Next]_vars

\* The resolution into vertex sources of persistent and other buffers, typed
\* and untyped, on a device with the buffer-storage extension.
InitSource ==
    \E c \in Devices :
       c.version = <<3, 3>> /\ c.gl_arb_buffer_storage /\ c.readback /\ InitOn(c)

NextSource ==
    \E h \in Handles :
       \/ NewDynamic(h, TheVertex, <<"x">>)
       \/ NewPersistentIfSupported(h, TheVertex, <<"x">>)
       \/ Erase(h)
       \/ IntoVertexBuffer(h)
       \/ IntoVerticesSource(h)
       \/ Map(h)
       \/ Unmap(h)
       \/ DrawInsert(h, "p", "vao1")
       \/ Drop(h)

SpecSource == InitSource /\ [][NextSource]_vars

\* Reading, writing and mapping one buffer, on devices with and without
\* readback.
InitIO ==
    \E c \in Devices : c.version = <<4, 5>> /\ c.gl_arb_buffer_storage /\ InitOn(c)

NextIO ==
    \E h \in {"a"} :
       \/ \E data \in Datas : New(h, TheVertex, data)
       \/ \E offset \in 0..(MaxLen + 1), data \in WriteDatas : Write(h, offset, data)
       \/ \E op \in {"read", "read_if_supported"} : Read(h, op)
       \/ \E op \in {"read_slice", "read_slice_if_supported"},
             offset \in 0..(MaxLen + 1), size \in 0..(MaxLen + 1) :
             ReadSlice(h, op, offset, size)
       \/ Map(h)
       \/ MapDeref(h)
       \/ \E i \in 1..MaxLen, e \in Elems : MapDerefMut(h, i, e)
       \/ Unmap(h)

SpecIO == InitIO /\ [][NextIO]_vars

\* the bindings and strides a caller hands to new_raw: the documentation's
\* example, a format that reaches past the stride, and the empty format
RawFormats ==
    { << <<"position", 0, "F32F32">>, <<"color", 8, "F32">> >>,
      << <<"position", 4, "F32F32F32">> >>,
      << >> }

RawSizes == {8, 12}

\* The constructors on every device, and the life of what they build.
InitCreate == \E c \in Devices : c.readback /\ InitOn(c)

NextCreate ==
    \E h \in {"a"} :
       \/ \E T \in VertexTypes, data \in {<< >>, <<"x">>} :
             \/ New(h, T, data)
             \/ NewDynamic(h, T, data)
             \/ NewPersistentIfSupported(h, T, data)
             \/ NewPersistent(h, T, data)
       \/ \E f \in RawFormats, n \in RawSizes : NewRaw(h, <<"x">>, f, n)
       \/ Erase(h)
       \/ IntoVertexBuffer(h)
       \/ \E data \in {<<"y">>} : Write(h, 0, data)
       \/ Map(h)
       \/ Unmap(h)
       \/ DrawInsert(h, "p", "vao1")
       \/ Drop(h)

SpecCreate == InitCreate /\ [][NextCreate]_vars

\* The cache under the drop of buffers and the draw path's lookups and
\* insertions, in every interleaving of their steps.
InitCache ==
    \E c \in Devices :
       c.version = <<4, 5>> /\ c.gl_arb_buffer_storage /\ c.readback /\ InitOn(c)

NextCache ==
    \/ \E h \in Handles :
          \/ New(h, TheVertex, <<"x">>)
          \/ Erase(h)
          \/ \E p \in Progs : DrawInsert(h, p, "vao1")
          \/ Drop(h)
    \/ \E k \in Keys : DrawLookup(k)

SpecCache == InitCache /\ [][NextCache]_vars

\* Persistent and other buffers resolved into sources, the fences the draw
\* path publishes and the device reaches, and the mappings of those buffers.
InitFence ==
    \E c \in Devices :
       c.version = <<4, 4>> /\ ~c.gl_arb_buffer_storage /\ c.readback /\ InitOn(c)

NextFence ==
    \E h \in Handles :
       \/ NewDynamic(h, TheVertex, <<"x">>)
       \/ NewPersistentIfSupported(h, TheVertex, <<"x">>)
       \/ Erase(h)
       \/ IntoVertexBuffer(h)
       \/ IntoVerticesSource(h)
       \/ \E c \in 1..MaxChans : DrawPublish(h, c)
       \/ DeviceSignal(h)
       \/ Map(h)
       \/ Unmap(h)

SpecFence == InitFence /\ [][NextFence]_vars


\* ------------------------------------------------------------------ claims
\* the cache without the entries whose key names the vertex buffer id
Without(cache, id) == [k \in Keys |-> IF k[1] = id THEN NoVao ELSE cache[k]]

\* C1: when the drop of a buffer has finished its loop, the cache is the
\* cache the drop found, less every entry keyed by the buffer's id, and every
\* other entry is as it was.
C1_DropPurgesExactly ==
    \A h \in Handles :
       (bufs[h].st = "removing" /\ to_delete = {})
          => vaos = Without(vaos0, get_id(bufs[h]))

\* a drop has removed two entries of its buffer and left another buffer's entry
C1_Witness ==
    \E h \in Handles :
       /\ bufs[h].st = "removing" /\ to_delete = {}
       /\ \A p \in Progs : vaos0[<<get_id(bufs[h]), "ib", p>>] # NoVao
       /\ \E k \in Keys : k[1] # get_id(bufs[h]) /\ vaos[k] # NoVao

\* C2: no device buffer is released while the cache holds an entry keyed by
\* its id; a drop that has not finished its purge has released nothing.
C2_PurgedBeforeRelease ==
    /\ \A id \in released : \A k \in Keys : k[1] = id => vaos[k] = NoVao
    /\ \A h \in Handles :
          bufs[h].st \in {"locked", "removing"} => get_id(bufs[h]) \notin released

\* a buffer has just been released while the cache holds another buffer's entry
C2_Witness ==
    /\ result.op = "released"
    /\ result.v[1] \in released
    /\ \E k \in Keys : vaos[k] # NoVao

\* C7: the step that turns a typed buffer into an untyped one keeps the id,
\* the bindings, the stride and the Buffer, releases nothing and leaves the
\* cache as it was.
C7_ErasePure ==
    [][\A h \in Handles :
          (bufs[h].st = "typed" /\ bufs'[h].st = "any")
             => /\ get_id(bufs'[h]) = get_id(bufs[h])
                /\ get_bindings(bufs'[h]) = get_bindings(bufs[h])
                /\ get_elements_size(bufs'[h]) = get_elements_size(bufs[h])
                /\ bufs'[h].buffer = bufs[h].buffer
                /\ released' = released
                /\ vaos' = vaos]_vars

\* an erased buffer whose id keys a cache entry
C7_Witness ==
    \E h \in Handles :
       /\ bufs[h].st = "any"
       /\ \E k \in Keys : k[1] = get_id(bufs[h]) /\ vaos[k] # NoVao


\* the fence channels registered with any buffer
AllFences == UNION {bufs[h].buffer.fences : h \in Handles}

\* C8: a step that resolves the buffer of h into a vertex source (the steps
\* of a drop leave result as it is) returns a sender exactly when the buffer is persistent; for a persistent buffer the
\* channel is one no buffer had, and it is added to the buffer's fences; for
\* any other buffer nothing is registered.
C8_FenceIffPersistent ==
    [][\A h \in Handles :
          (/\ result'.op = "into_vertices_source" /\ result'.h = h
           /\ (result' # result \/ nextChan' # nextChan))
             => IF is_persistent(bufs[h])
                THEN /\ Len(result'.v) = 1
                     /\ result'.v[1] \notin AllFences
                     /\ result'.v[1] > nextChan
                     /\ bufs'[h].buffer.fences =
                           bufs[h].buffer.fences \cup {result'.v[1]}
                ELSE /\ result'.v = << >>
                     /\ bufs'[h].buffer.fences = bufs[h].buffer.fences
                     /\ bufs[h].buffer.fences = {}
                     /\ nextChan' = nextChan]_vars

\* an untyped persistent buffer resolved a second time, beside a buffer that
\* is not persistent and holds no fence
C8_Witness ==
    /\ result.op = "into_vertices_source"
    /\ bufs[result.h].st = "any"
    /\ is_persistent(bufs[result.h])
    /\ Cardinality(bufs[result.h].buffer.fences) = 2
    /\ result.v[1] \in bufs[result.h].buffer.fences
    /\ \E g \in Handles : Live(g) /\ ~is_persistent(bufs[g])

ReadOps == {"read", "read_if_supported", "read_slice", "read_slice_if_supported"}

\* C9: a buffer never has two live Mappings, and while it has one no step
\* is a map, a write or a read of that buffer.
C9_OneMapping ==
    /\ [](\A h \in Handles : bufs[h].mapping <= 1)
    /\ [][\A h \in Handles :
             bufs[h].mapping > 0
                => ~(result'.h = h /\ result'.op \in ReadOps \cup {"map", "write"})]_vars

\* a mapped buffer after a write through its Mapping
C9_Witness ==
    /\ result.op = "deref_mut"
    /\ bufs[result.h].mapping = 1
    /\ Len(bufs[result.h].buffer.data) = MaxLen


\* C4: a write step fails with OutOfBounds exactly when offset + Len(data)
\* exceeds the number of elements, succeeds otherwise (so at equality), and a
\* failed write leaves the buffer as it was.
C4_WriteBounds ==
    [][\A h \in Handles :
          (result'.op = "write" /\ result'.h = h)
             => LET capacity == Len(bufs[h].buffer.data)
                    fails == result'.tag = "OutOfBounds"
                IN /\ fails <=> result'.off + Len(result'.v) > capacity
                   /\ ~fails => result'.tag = "Some"
                   /\ fails => bufs' = bufs
                   /\ Len(bufs'[h].buffer.data) = capacity]_vars

\* a write that ends exactly at the last element has succeeded
C4_Witness ==
    /\ result.op = "write" /\ result.tag = "Some"
    /\ result.off > 0 /\ Len(result.v) > 0
    /\ result.off + Len(result.v) = Len(bufs[result.h].buffer.data)
    /\ SubSeq(bufs[result.h].buffer.data, result.off + 1, result.off + Len(result.v))
          = result.v

\* a write that reaches one element past the end has failed
C4_WitnessFail ==
    /\ result.op = "write" /\ result.tag = "OutOfBounds"
    /\ result.off + Len(result.v) = Len(bufs[result.h].buffer.data) + 1

\* the elements a read_slice of the last operation's range finds
Slice == SubSeq(bufs[result.h].buffer.data, result.off + 1, result.off + result.size)

InRange == result.off + result.size <= Len(bufs[result.h].buffer.data)

\* C5 as claimed: read_slice returns the elements of the range when the range
\* fits and fails with OutOfBounds when it does not.
C5_AsClaimed ==
    result.op \in {"read_slice", "read_slice_if_supported"}
       => IF InRange
          THEN result.tag = "Some" /\ result.v = Slice
          ELSE result.tag = "OutOfBounds"

\* C5: on a device with readback read_slice returns the elements of the range
\* when the range fits and fails with OutOfBounds when it does not; on a
\* device without readback read_slice_if_supported returns None for a range
\* that fits and fails (OutOfBounds or None) for one that does not.  No
\* outcome is a sequence other than the elements of the whole range.
C5_ReadSlice ==
    result.op \in {"read_slice", "read_slice_if_supported"}
       => IF ctx.readback
          THEN IF InRange
               THEN result.tag = "Some" /\ result.v = Slice
               ELSE result.tag = "OutOfBounds"
          ELSE /\ result.op = "read_slice_if_supported"
               /\ IF InRange
                  THEN result.tag = None
                  ELSE result.tag \in {"OutOfBounds", None}

\* read_slice(1, 1) after write(1, [rec]) has returned [rec]
C5_Witness ==
    /\ result.op = "read_slice" /\ result.off = 1 /\ result.size = 1
    /\ bufs[result.h].written = <<1, <<"y">> >>
    /\ result.tag = "Some" /\ result.v = <<"y">>

\* a read_slice whose range ends one element past the end has failed
C5_WitnessFail ==
    /\ result.op = "read_slice_if_supported" /\ ctx.readback
    /\ result.off = Len(bufs[result.h].buffer.data) /\ result.size = 1
    /\ result.off > 0
    /\ result.tag = "OutOfBounds"

\* the last operation is a read of a buffer whose elements are as a write at
\* offset 0 left them
ReadAfterWrite ==
    /\ result.op \in {"read", "read_if_supported"}
    /\ bufs[result.h].written # << >>
    /\ bufs[result.h].written[1] = 0

\* C6 as claimed, taken where it is strongest, on a device with readback:
\* after write(buffer, 0, data), read(buffer) returns data.
C6_AsClaimed ==
    (ReadAfterWrite /\ ctx.readback)
       => result.tag = "Some" /\ result.v = bufs[result.h].written[2]

\* C6: after write(buffer, 0, data), read(buffer) on a device with readback
\* returns the whole buffer: as many elements as the buffer holds, the first
\* Len(data) of them data; so it returns data exactly when Len(data) is the
\* buffer's element count.  Without readback read_if_supported returns None.
C6_RoundTrip ==
    ReadAfterWrite
       => LET data == bufs[result.h].written[2]
              capacity == Len(bufs[result.h].buffer.data)
          IN IF ctx.readback
             THEN /\ result.tag = "Some"
                  /\ Len(result.v) = capacity
                  /\ SubSeq(result.v, 1, Len(data)) = data
                  /\ result.v = data <=> Len(data) = capacity
             ELSE result.op = "read_if_supported" /\ result.tag = None

\* a read after a write of one element at offset 0 into a buffer of two
C6_Witness ==
    /\ ReadAfterWrite /\ ctx.readback
    /\ Len(bufs[result.h].written[2]) = 1
    /\ Len(result.v) = 2
    /\ result.v[1] = "y" /\ result.v[2] = "x"


\* a device without persistent mapping: a version below 4.4 and no extension
NoPersistentMapping ==
    /\ ctx.version \in {<<3, 3>>, <<3, 5>>, <<4, 3>>}
    /\ ~ctx.gl_arb_buffer_storage

\* the persistent constructor that ran last returned a persistent buffer
ReturnedPersistent ==
    /\ result.tag = "Some"
    /\ bufs[result.h].st = "typed"
    /\ bufs[result.h].ctor = result.op
    /\ is_persistent(bufs[result.h])

C3_WitnessSome ==
    /\ result.op = "new_persistent_if_supported"
    /\ ctx.version = <<4, 3>> /\ ctx.gl_arb_buffer_storage
    /\ ReturnedPersistent

\* every entry of the bindings of vb ends within the stride
WithinStride(vb) ==
    \A i \in 1..Len(get_bindings(vb)) :
       get_bindings(vb)[i][2] + AttributeBytes(get_bindings(vb)[i][3])
          <= get_elements_size(vb)

Purging(h) == bufs[h].st \in {"locked", "removing"}

\* the purge of the buffer of h has removed some of its entries and not all
Partial(h) ==
    /\ bufs[h].st = "removing"
    /\ vaos # vaos0
    /\ vaos # Without(vaos0, get_id(bufs[h]))

\* C11: the scan and every removal of a drop run with the cache's lock held by
\* that drop, and the lock is held by nobody else; so whenever the lock is
\* free, which is when a lookup or an insertion can act, no purge is partly
\* done, and a lookup is never made between a drop's lock and its unlock.  A
\* lookup returns what the cache holds; every entry the cache holds was
\* entered for a buffer whose purge has not begun or has not finished, so a
\* lookup made once the purge of a buffer has finished finds none of the
\* entries that buffer had, neither before its device buffer is released nor
\* after.
C11_InvalidationAtomic ==
    /\ \A h \in Handles : Purging(h) <=> lock = h
    /\ lock = None => \A h \in Handles : ~Partial(h)
    /\ result.op = "lookup"
          => /\ \A h \in Handles : ~Purging(h)
             /\ result.v[2] = vaos[result.v[1]]
             /\ \A h \in Handles :
                   (bufs[h].st = "unlocked" /\ result.v[1] \in bufs[h].entered)
                      => result.v[2] = NoVao
             /\ result.v[1][1] \in released => result.v[2] = NoVao
    /\ \A k \in Keys :
          vaos[k] # NoVao
             => \E h \in Handles :
                   /\ bufs[h].st \in {"typed", "any", "locked", "removing"}
                   /\ get_id(bufs[h]) = k[1]
                   /\ k \in bufs[h].entered

\* a lookup, made after the purge of a buffer with two entries has finished
\* and before its device buffer is released, of a key that buffer had: it
\* finds nothing, while the other buffer's entry is still in the cache
C11_Witness ==
    /\ result.op = "lookup"
    /\ result.v[2] = NoVao
    /\ \E h \in Handles :
          /\ bufs[h].st = "unlocked"
          /\ result.v[1] \in bufs[h].entered
          /\ Cardinality(bufs[h].entered) = 2
          /\ \E g \in Handles \ {h} :
                /\ Live(g)
                /\ \E k \in bufs[g].entered : vaos[k] # NoVao

\* a drop has removed one of its buffer's two entries and holds the lock,
\* while the other buffer is live and has an entry
C11_WitnessPartial ==
    \E h \in Handles :
       /\ Partial(h) /\ lock = h
       /\ Cardinality(to_delete) = 1
       /\ \E g \in Handles \ {h} : Live(g) /\ bufs[g].entered # {}

\* the channels attached to b by resolutions into a source whose fence has
\* not been published or has not been reached by the device
Outstanding(b) == b.fences \ b.signalled

\* C12: no buffer has a live Mapping while a fence of one of its resolutions
\* is outstanding.  A map of a persistent buffer returns only in a state where
\* every channel attached to the buffer since its last map has had its fence
\* published and the device has reached the most recently published fence,
\* and with it every fence published before; the fences waited for are
\* consumed.  Where no fence is outstanding a map of an unborrowed typed
\* buffer can return at once.
C12_MapWaitsForFence ==
    /\ [](\A h \in Handles :
             /\ bufs[h].buffer.signalled \subseteq Published(bufs[h].buffer)
             /\ Published(bufs[h].buffer) \subseteq bufs[h].buffer.fences
             /\ bufs[h].mapping > 0 => Outstanding(bufs[h].buffer) = {}
             /\ (CanMap(h) /\ Outstanding(bufs[h].buffer) = {}) => ENABLED Map(h))
    /\ [][\A h \in Handles :
             (bufs'[h].mapping > bufs[h].mapping /\ is_persistent(bufs[h]))
                => LET b == bufs[h].buffer IN
                   /\ Outstanding(b) = {}
                   /\ b.published # << >>
                         => b.published[Len(b.published)] \in b.signalled
                   /\ Outstanding(bufs'[h].buffer) = {}
                   /\ bufs'[h].buffer.fences = {}
                   /\ bufs'[h].buffer.data = b.data]_vars

\* a map has returned a Mapping of the only persistent buffer after both
\* channels were attached to it by resolutions: their fences were waited for
C12_Witness ==
    /\ result.op = "map"
    /\ bufs[result.h].mapping = 1
    /\ is_persistent(bufs[result.h])
    /\ nextChan = 2
    /\ \A g \in Handles \ {result.h} : ~is_persistent(bufs[g])

\* a map of a persistent buffer cannot return: the fence of its first
\* resolution is reached and the fence of its second is not yet published
C12_WitnessWaiting ==
    \E h \in Handles :
       /\ CanMap(h) /\ is_persistent(bufs[h])
       /\ bufs[h].buffer.signalled # {}
       /\ Outstanding(bufs[h].buffer) # {}
       /\ Published(bufs[h].buffer) # bufs[h].buffer.fences
       /\ ~ENABLED Map(h)

====
